---------------------------- MODULE Spec2Model ----------------------------
(***************************************************************************)
(* A model of synt/utils/db.py: the sqlite corpus adapter                  *)
(* (get_sample_limit, get_samples), the Redis cache manager (RedisManager) *)
(* and the batch feature counter (redis_feature_consumer).                 *)
(*                                                                         *)
(* Six specifications share one state:                                     *)
(*   SpecCorpus    the corpus table, the cached `limit` key, get_samples   *)
(*   Spec          store_feature_counts: dispatcher, producer, consumers   *)
(*   SpecFeatures  pickled blobs: word_scores, best_words                  *)
(*   SpecBlobs     pickle_store, pickle_load, the stored classifiers       *)
(*   SpecFreqdists store_freqdists over word counts that change            *)
(*   SpecScores    store_freqdists and store_feature_scores                *)
(***************************************************************************)
EXTENDS Integers, Sequences, FiniteSets, TLC

\* ------------------------------------------------------------------------
\* Bounds of the model
\* ------------------------------------------------------------------------

\* rows per sentiment in the corpus table of SpecCorpus
MaxRows == 4

\* largest `limit` argument tried on get_samples
MaxLimitArg == 5

\* largest `offset` argument tried on get_samples
MaxOffsetArg == 4

\* rows per sentiment in the corpus table of Spec
BatchRows == 2

\* store_feature_counts invocations in one behaviour of Spec
MaxCalls == 2

\* largest `samples` argument tried on store_feature_counts
MaxSamples == 4

\* largest `chunksize` argument tried on store_feature_counts
MaxChunk == 2

\* chunks handed to the pool in one behaviour of Spec
MaxTasks == 3

\* word scores are the integers 0..MaxScore
MaxScore == 2

\* largest `n` argument tried on store_best_features (the smallest is -1)
MaxN == 3

\* largest count of a word under one label in SpecFreqdists and SpecScores
MaxCount == 2

\* ------------------------------------------------------------------------
\* Values
\* ------------------------------------------------------------------------

Labels == {"positive", "negative"}

Min(a, b) == IF a <= b THEN a ELSE b

Max(a, b) == IF a >= b THEN a ELSE b

\* The decimal digits, in order: Digits[d + 1] is the character of digit d.
Digits == <<"0", "1", "2", "3", "4", "5", "6", "7", "8", "9">>

DigitValue(ch) == CHOOSE d \in 0..9 : Digits[d + 1] = ch

\* str(n) for n >= 0: redis-py encodes an integer value as its decimal string.
RECURSIVE ToStr(_)
ToStr(n) ==
    IF n < 10 THEN <<Digits[n + 1]>>
    ELSE Append(ToStr(n \div 10), Digits[(n % 10) + 1])

\* int(s) for a non-empty string of decimal digits.
RECURSIVE ParseInt(_)
ParseInt(s) ==
    IF Len(s) = 1 THEN DigitValue(s[1])
    ELSE 10 * ParseInt(SubSeq(s, 1, Len(s) - 1)) + DigitValue(s[Len(s)])

\* A string key of the cache: absent, or present with its bytes.
NoKey == [exists |-> FALSE, val |-> <<>>]

StrKey(n) == [exists |-> TRUE, val |-> ToStr(n)]

\* the names classifiers are stored under
ClassifierNames == {"clf", "clf2"}

\* ------------------------------------------------------------------------
\* State
\* ------------------------------------------------------------------------

VARIABLES
    corpus,      \* the item table: for each sentiment its texts, in rowid order
    limit,       \* the cache key `limit`
    wordcounts,  \* the sorted sets `<label>_wordcounts`: word -> score
    processed,   \* the cache keys `<label>_processed`
    word_scores, \* the cache key `word_scores` (a pickled blob)
    best_words,  \* the cache key `best_words` (a pickled blob)
    label_fd,    \* the cache key `label_fd` (a pickled blob)
    classifiers, \* the cache keys that hold pickled classifiers, by name
    jobs,        \* the store_feature_counts invocations
    tasks,       \* the chunks handed to the worker pool
    ret          \* the last operation and what it returned

vars == <<corpus, limit, wordcounts, processed, word_scores, best_words,
          label_fd, classifiers, jobs, tasks, ret>>

\* ------------------------------------------------------------------------
\* Corpus store adapter (get_sample_limit, get_samples)
\* ------------------------------------------------------------------------

\* The texts of SpecCorpus. The text column is unique over the whole table:
\* the i-th row of a sentiment holds the i-th text of that sentiment's pool.
RowText(label, i) == IF label = "positive" THEN 2 * i - 1 ELSE 2 * i

\* SELECT COUNT(*) FROM item where sentiment = label
CountRows(c, label) == Len(c[label])

\* get_sample_limit with the bug of taking the larger count.
get_sample_limit_max(c, lim) ==
    IF lim.exists
    THEN [value |-> ParseInt(lim.val), limit |-> lim, scanned |-> FALSE]
    ELSE LET pos_count == CountRows(c, "positive")
             neg_count == CountRows(c, "negative")
             l == IF neg_count > pos_count THEN neg_count ELSE pos_count
         IN  [value |-> l, limit |-> StrKey(l), scanned |-> TRUE]

\* get_sample_limit with the bug of never reading the cached key.
get_sample_limit_rescan(c, lim) ==
    LET pos_count == CountRows(c, "positive")
        neg_count == CountRows(c, "negative")
        l == IF neg_count > pos_count THEN pos_count ELSE neg_count
    IN  [value |-> l, limit |-> StrKey(l), scanned |-> TRUE]

\* get_sample_limit with the bug of caching only a limit that is truthy
\* (`if limit: r.set('limit', limit)`): a limit of 0 is not stored.
get_sample_limit_nozero(c, lim) ==
    IF lim.exists
    THEN [value |-> ParseInt(lim.val), limit |-> lim, scanned |-> FALSE]
    ELSE LET pos_count == CountRows(c, "positive")
             neg_count == CountRows(c, "negative")
             l == IF neg_count > pos_count THEN pos_count ELSE neg_count
         IN  [value |-> l, limit |-> IF l = 0 THEN lim ELSE StrKey(l),
              scanned |-> TRUE]

\* get_sample_limit() on corpus c with the cache key `limit` holding lim:
\* the value returned, the key afterwards, and whether the table was scanned.
get_sample_limit(c, lim) ==
    IF lim.exists
    THEN [value |-> ParseInt(lim.val), limit |-> lim, scanned |-> FALSE]
    ELSE LET pos_count == CountRows(c, "positive")
             neg_count == CountRows(c, "negative")
             l == IF neg_count > pos_count THEN pos_count ELSE neg_count
         IN  [value |-> l, limit |-> StrKey(l), scanned |-> TRUE]

\* SELECT text, sentiment FROM item WHERE sentiment = label LIMIT n OFFSET o
\* (sqlite: a negative LIMIT is no limit, a negative OFFSET is 0; the rows
\* of a table scan come in rowid order)
SqlSelect(c, label, n, o) ==
    LET rows  == c[label]
        off   == IF o < 0 THEN 0 ELSE o
        last  == IF n < 0 THEN Len(rows) ELSE Min(Len(rows), off + n)
    IN  [i \in 1..Max(0, last - off) |-> <<rows[off + i], label>>]

\* get_samples with the bug of not halving the limit.
get_samples_nohalf(c, lim, limit_arg, offset_arg) ==
    LET l1  == IF limit_arg < 2 THEN 2 ELSE limit_arg
        g1  == get_sample_limit(c, lim)
        g2  == get_sample_limit(c, g1.limit)
        l2  == IF l1 > g1.value THEN g2.value ELSE l1
        l3  == IF l2 % 2 # 0 THEN l2 - 1 ELSE l2
        off == offset_arg \div 2
        neg_samples == SqlSelect(c, "negative", l3, off)
        pos_samples == SqlSelect(c, "positive", l3, off)
    IN  [value |-> pos_samples \o neg_samples,
         limit |-> IF l1 > g1.value THEN g2.limit ELSE g1.limit]

\* get_samples(limit_arg, offset_arg): the samples returned and the cache
\* key `limit` afterwards (get_sample_limit may have written it).
\* Python 2's / on integers is floor division, as is \div.
get_samples(c, lim, limit_arg, offset_arg) ==
    LET l1  == IF limit_arg < 2 THEN 2 ELSE limit_arg
        g1  == get_sample_limit(c, lim)
        g2  == get_sample_limit(c, g1.limit)
        l2  == IF l1 > g1.value THEN g2.value ELSE l1
        l3  == IF l2 % 2 # 0 THEN l2 - 1 ELSE l2
        l4  == l3 \div 2
        off == offset_arg \div 2
        neg_samples == SqlSelect(c, "negative", l4, off)
        pos_samples == SqlSelect(c, "positive", l4, off)
    IN  [value |-> pos_samples \o neg_samples,
         limit |-> IF l1 > g1.value THEN g2.limit ELSE g1.limit]

batchIdle == /\ UNCHANGED <<wordcounts, processed, jobs, tasks>>

blobsIdle == /\ UNCHANGED <<word_scores, best_words, label_fd, classifiers>>

\* A call of get_sample_limit(): no path of it raises.
GetSampleLimit ==
    LET g == get_sample_limit(corpus, limit)
    IN  /\ limit' = g.limit
        /\ ret' = [op |-> "get_sample_limit", value |-> g.value,
                   scanned |-> g.scanned, error |-> "none"]
        /\ UNCHANGED corpus
        /\ batchIdle
        /\ blobsIdle

\* A call of get_samples(limit_arg, offset_arg).
GetSamples ==
    \E limit_arg \in 0..MaxLimitArg, offset_arg \in 0..MaxOffsetArg :
        LET g == get_samples(corpus, limit, limit_arg, offset_arg)
        IN  /\ limit' = g.limit
            /\ ret' = [op |-> "get_samples", limit_arg |-> limit_arg,
                       offset_arg |-> offset_arg, value |-> g.value,
                       error |-> "none"]
            /\ UNCHANGED corpus
            /\ batchIdle
            /\ blobsIdle

\* The corpus is written by other programs: a row is inserted (its text is
\* fresh: texts are interchangeable here) ...
InsertRow ==
    \E label \in Labels :
        /\ Len(corpus[label]) < MaxRows
        /\ corpus' = [corpus EXCEPT
                         ![label] = Append(@, RowText(label, Len(@) + 1))]
        /\ ret' = [op |-> "insert_row"]
        /\ UNCHANGED limit
        /\ batchIdle
        /\ blobsIdle

\* ... or the last row of a sentiment is deleted.
DeleteRow ==
    \E label \in Labels :
        /\ Len(corpus[label]) > 0
        /\ corpus' = [corpus EXCEPT ![label] = SubSeq(@, 1, Len(@) - 1)]
        /\ ret' = [op |-> "delete_row"]
        /\ UNCHANGED limit
        /\ batchIdle
        /\ blobsIdle

\* the vocabulary of sanitize_text
Words == {"a", "b"}

\* No sorted set has a member (a score of 0 stands for "not a member":
\* zincrby only ever adds 1, so a member's score is at least 1).
EmptyCounts == [l \in Labels |-> [w \in Words |-> 0]]

\* RedisManager(purge=True): flushdb removes every key.
Purge ==
    /\ limit' = NoKey
    /\ wordcounts' = EmptyCounts
    /\ processed' = [l \in Labels |-> NoKey]
    /\ word_scores' = NoKey
    /\ best_words' = NoKey
    /\ label_fd' = NoKey
    /\ classifiers' = [n \in ClassifierNames |-> NoKey]
    /\ ret' = [op |-> "purge"]
    /\ UNCHANGED <<corpus, jobs, tasks>>

InitCorpus ==
    /\ corpus = [positive |-> <<>>, negative |-> <<>>]
    /\ limit = NoKey
    /\ wordcounts = EmptyCounts
    /\ processed = [l \in Labels |-> NoKey]
    /\ word_scores = NoKey
    /\ best_words = NoKey
    /\ label_fd = NoKey
    /\ classifiers = [n \in ClassifierNames |-> NoKey]
    /\ jobs = <<>>
    /\ tasks = <<>>
    /\ ret = [op |-> "init"]

NextCorpus ==
    \/ GetSampleLimit
    \/ GetSamples
    \/ InsertRow
    \/ DeleteRow
    \/ Purge

SpecCorpus == InitCorpus /\ [][NextCorpus]_vars

\* ------------------------------------------------------------------------
\* Properties of the corpus store adapter (checked under SpecCorpus)
\* ------------------------------------------------------------------------

\* the samples of one sentiment in a result of get_samples
CountLabel(samples, label) ==
    Cardinality({i \in 1..Len(samples) : samples[i][2] = label})

\* C4: get_sample_limit called while the cache holds no `limit` key returns
\* min(P, N) for the corpus' P positive and N negative rows, and stores that
\* value under `limit`.
C4_SampleLimitIsMin ==
    (ret.op = "get_sample_limit" /\ ret.scanned) =>
        /\ ret.value = Min(Len(corpus.positive), Len(corpus.negative))
        /\ limit.exists
        /\ ParseInt(limit.val)
             = Min(Len(corpus.positive), Len(corpus.negative))

\* C4's case: a scan of a corpus with more positive than negative rows.
C4_Witness ==
    /\ ret.op = "get_sample_limit"
    /\ ret.scanned
    /\ Len(corpus.positive) > Len(corpus.negative)
    /\ ret.value = 2

\* C5: the sample limit is UNCACHED -> CACHED. A call in UNCACHED scans the
\* corpus and writes `limit`; a call in CACHED returns the cached integer
\* without scanning, whatever the corpus has become, and leaves the key as
\* it is; only a purge takes the key away.
C5_LimitStateMachine ==
    [][ /\ (limit.exists /\ ret'.op # "purge") => limit' = limit
        /\ (ret'.op = "get_sample_limit" /\ limit.exists) =>
              /\ ~ret'.scanned
              /\ ret'.value = ParseInt(limit.val)
        /\ (ret'.op = "get_sample_limit" /\ ~limit.exists) =>
              /\ ret'.scanned
              /\ limit'.exists
      ]_vars

\* C5's case: a cached limit returned although the corpus changed under it.
C5_Witness ==
    /\ ret.op = "get_sample_limit"
    /\ ~ret.scanned
    /\ ret.value = 3
    /\ Min(Len(corpus.positive), Len(corpus.negative)) = 1

C6_Original ==
    ret.op = "get_samples" =>
        LET npos == CountLabel(ret.value, "positive")
            nneg == CountLabel(ret.value, "negative")
        IN  /\ Len(ret.value) <= ret.limit_arg
            /\ npos - nneg <= 1
            /\ nneg - npos <= 1

\* C6 as amended: get_samples(limit, offset) returns at most max(limit, 2)
\* samples, at most max(limit, 2) div 2 of each sentiment, and as many
\* positive as negative ones whenever both sentiments have at least
\* offset div 2 + max(limit, 2) div 2 rows.
C6_SamplesBounded ==
    ret.op = "get_samples" =>
        LET npos == CountLabel(ret.value, "positive")
            nneg == CountLabel(ret.value, "negative")
            half == Max(ret.limit_arg, 2) \div 2
            need == (ret.offset_arg \div 2) + half
        IN  /\ Len(ret.value) <= Max(ret.limit_arg, 2)
            /\ npos <= half
            /\ nneg <= half
            /\ (Len(corpus.positive) >= need /\ Len(corpus.negative) >= need)
                  => npos = nneg

\* C6's case: an odd limit of 5 at an offset, answered with 2 + 2 samples.
C6_Witness ==
    /\ ret.op = "get_samples"
    /\ ret.limit_arg = 5
    /\ ret.offset_arg = 3
    /\ CountLabel(ret.value, "positive") = 2
    /\ CountLabel(ret.value, "negative") = 2

\* A cached limit that outlived its corpus: 2 positive samples, no negative.
C6_Unbalanced ==
    /\ ret.op = "get_samples"
    /\ CountLabel(ret.value, "positive") = 2
    /\ CountLabel(ret.value, "negative") = 0

\* ------------------------------------------------------------------------
\* Batch feature counter (redis_feature_consumer, store_feature_counts)
\* ------------------------------------------------------------------------

\* sanitize_text(text): the tokens of a text. The tokenizer is not part of
\* db.py; the texts stand for its cases: a repeated token among others, one
\* token twice, one token, no token.
sanitize_text(text) ==
    CASE text = 1 -> <<"a", "b", "a">>
      [] text = 2 -> <<"b", "b">>
      [] text = 3 -> <<"a">>
      [] text = 4 -> <<>>
      [] text = 5 -> <<>>
      [] OTHER    -> <<"b", "a">>

\* set(tokens)
TokenSet(tokens) == {tokens[i] : i \in 1..Len(tokens)}

\* The elements of a set of words in some order: Python fixes no iteration
\* order for a set, and the increments of different words commute.
RECURSIVE SetToSeq(_)
SetToSeq(S) ==
    IF S = {} THEN <<>>
    ELSE LET x == CHOOSE y \in S : TRUE
         IN  <<x>> \o SetToSeq(S \ {x})

\* a queued command of the pipeline
Zincrby(label, word) ==
    [op |-> "zincrby", label |-> label, word |-> word, n |-> 1]

SetProcessed(label, n) ==
    [op |-> "set", label |-> label, word |-> "", n |-> n]

\* the loop's iterable with the bug of iterating the tokens themselves
WordsToCount_all(tokens) == tokens

\* the loop's iterable in the code: set(tokens)
WordsToCount(tokens) == SetToSeq(TokenSet(tokens))

\* The commands the loop queues for samples[i..]: for a sample that has
\* tokens, one zincrby per word of set(tokens).
RECURSIVE QueueIncrements(_, _)
QueueIncrements(samples, i) ==
    IF i > Len(samples) THEN <<>>
    ELSE LET label  == samples[i][2]
             tokens == sanitize_text(samples[i][1])
             here   == IF Len(tokens) > 0
                       THEN [k \in 1..Len(WordsToCount(tokens)) |->
                                Zincrby(label, WordsToCount(tokens)[k])]
                       ELSE <<>>
         IN  here \o QueueIncrements(samples, i + 1)

\* pos_processed, neg_processed: the samples of a chunk that have tokens and
\* whose label does (positive) or does not (negative) start with 'pos'.
ProcessedIn(samples, label) ==
    Cardinality({i \in 1..Len(samples) :
                    /\ Len(sanitize_text(samples[i][1])) > 0
                    /\ (samples[i][2] = "positive") = (label = "positive")})

\* The pipeline redis_feature_consumer(samples) has queued when it reaches
\* pipeline.execute().
PipelineOf(samples) ==
    QueueIncrements(samples, 1)
        \o <<SetProcessed("negative", ProcessedIn(samples, "negative")),
             SetProcessed("positive", ProcessedIn(samples, "positive"))>>

\* ZINCRBY with the bug of writing the amount instead of adding it (ZADD).
ZincrbyOnCache_zadd(wc, cmd) ==
    [wc EXCEPT ![cmd.label][cmd.word] = cmd.n]

\* ZINCRBY <label>_wordcounts 1 word
ZincrbyOnCache(wc, cmd) ==
    [wc EXCEPT ![cmd.label][cmd.word] = @ + cmd.n]

\* The sorted sets after the commands cmds[i..] ran in order.
RECURSIVE RunOnCounts(_, _, _)
RunOnCounts(wc, cmds, i) ==
    IF i > Len(cmds) THEN wc
    ELSE RunOnCounts(IF cmds[i].op = "zincrby"
                     THEN ZincrbyOnCache(wc, cmds[i]) ELSE wc,
                     cmds, i + 1)

\* The processed counters after the commands cmds[i..] ran in order:
\* SET <label>_processed n
RECURSIVE RunOnProcessed(_, _, _)
RunOnProcessed(pr, cmds, i) ==
    IF i > Len(cmds) THEN pr
    ELSE RunOnProcessed(IF cmds[i].op = "set"
                        THEN [pr EXCEPT ![cmds[i].label] = StrKey(cmds[i].n)]
                        ELSE pr,
                        cmds, i + 1)

\* 'positive_wordcounts' in self.r.keys(): a sorted set exists while it has
\* a member.
HasWordCounts_never(wc) == FALSE

HasWordCounts(wc) == \E w \in Words : wc["positive"][w] > 0

\* producer(offset, length) of store_feature_counts(samples, ...): the chunk
\* and the cache key `limit` afterwards.
producer(c, lim, samples, offset, length) ==
    LET len == IF offset + length > samples THEN samples - offset ELSE length
    IN  IF len < 1
        THEN [value |-> <<>>, limit |-> lim]
        ELSE get_samples(c, lim, len, offset)

corpusIdle == /\ UNCHANGED <<corpus, ret>>

\* store_feature_counts(samples, chunksize): returns at once when the guard
\* key exists, and otherwise starts the batch job.
StoreFeatureCounts ==
    \E samples \in 0..MaxSamples, chunksize \in 1..MaxChunk :
        /\ Len(jobs) < MaxCalls
        /\ Len(tasks) + ((samples + chunksize - 1) \div chunksize) <= MaxTasks
        /\ jobs' = Append(jobs,
                     [samples |-> samples, chunksize |-> chunksize,
                      offset |-> 0,
                      skipped |-> HasWordCounts(wordcounts),
                      state |-> IF HasWordCounts(wordcounts)
                                THEN "returned" ELSE "dispatching"])
        /\ UNCHANGED <<limit, wordcounts, processed, tasks>>
        /\ corpusIdle
        /\ blobsIdle

\* batch_job, one chunk: the dispatcher calls the producer for the next
\* chunk of [0, samples) and hands a chunk that is not empty to the pool;
\* past the last chunk it waits for the pool.
Dispatch ==
    \E j \in 1..Len(jobs) :
        /\ jobs[j].state = "dispatching"
        /\ \/ /\ jobs[j].offset < jobs[j].samples
              /\ LET p == producer(corpus, limit, jobs[j].samples,
                                   jobs[j].offset, jobs[j].chunksize)
                 IN  /\ limit' = p.limit
                     /\ tasks' = IF Len(p.value) = 0 THEN tasks
                                 ELSE Append(tasks,
                                        [job |-> j, chunk |-> p.value,
                                         stage |-> "queued",
                                         pipeline |-> <<>>, sent |-> 0])
              /\ jobs' = [jobs EXCEPT ![j].offset = @ + jobs[j].chunksize]
           \/ /\ jobs[j].offset >= jobs[j].samples
              /\ jobs' = [jobs EXCEPT ![j].state = "joining"]
              /\ UNCHANGED <<limit, tasks>>
        /\ UNCHANGED <<wordcounts, processed>>
        /\ corpusIdle
        /\ blobsIdle

\* batch_job, the join: every chunk of the job was consumed, or its worker
\* failed.
Join ==
    \E j \in 1..Len(jobs) :
        /\ jobs[j].state = "joining"
        /\ \A t \in 1..Len(tasks) :
              tasks[t].job = j => tasks[t].stage \in {"executed", "failed"}
        /\ jobs' = [jobs EXCEPT ![j].state = "returned"]
        /\ UNCHANGED <<limit, wordcounts, processed, tasks>>
        /\ corpusIdle
        /\ blobsIdle

\* redis_feature_consumer with the bug of a pipeline that is no transaction
\* (pipeline(transaction=False)) and is cut off: the queued commands reach
\* the cache one at a time.
redis_feature_consumer_one_by_one(t) ==
    /\ tasks[t].stage = "queued"
    /\ LET cmds == IF tasks[t].sent = 0 THEN PipelineOf(tasks[t].chunk)
                   ELSE tasks[t].pipeline
       IN  /\ wordcounts' = RunOnCounts(wordcounts, <<cmds[1]>>, 1)
           /\ processed' = RunOnProcessed(processed, <<cmds[1]>>, 1)
           /\ tasks' = IF Len(cmds) = 1
                       THEN [tasks EXCEPT ![t].stage = "executed",
                                          ![t].pipeline = <<>>,
                                          ![t].sent = @ + 1]
                       ELSE [tasks EXCEPT ![t].pipeline = Tail(cmds),
                                          ![t].sent = @ + 1]
    /\ UNCHANGED <<limit, jobs>>
    /\ corpusIdle
    /\ blobsIdle

\* redis_feature_consumer(samples) in a worker: the commands are queued in
\* the worker's own pipeline, where the cache sees nothing of them, and
\* pipeline.execute() sends them as one transaction (redis-py's pipeline is
\* MULTI ... EXEC unless asked otherwise): they run as one step.
redis_feature_consumer(t) ==
    /\ tasks[t].stage = "queued"
    /\ LET cmds == PipelineOf(tasks[t].chunk)
       IN  /\ wordcounts' = RunOnCounts(wordcounts, cmds, 1)
           /\ processed' = RunOnProcessed(processed, cmds, 1)
           /\ tasks' = [tasks EXCEPT ![t].stage = "executed",
                                     ![t].sent = Len(cmds)]
    /\ UNCHANGED <<limit, jobs>>
    /\ corpusIdle
    /\ blobsIdle

\* A worker dies before pipeline.execute(): its pipeline is lost with it.
Fail(t) ==
    /\ tasks[t].stage = "queued"
    /\ tasks[t].sent = 0
    /\ tasks' = [tasks EXCEPT ![t].stage = "failed"]
    /\ UNCHANGED <<limit, wordcounts, processed, jobs>>
    /\ corpusIdle
    /\ blobsIdle

\* The corpus is any table of at most BatchRows rows per sentiment; the
\* module's import has called get_sample_limit() once (the default argument
\* of get_samples), on an empty cache.
Init ==
    /\ \E P \in 0..BatchRows, N \in 0..BatchRows :
         corpus = [positive |-> [i \in 1..P |-> RowText("positive", i)],
                   negative |-> [i \in 1..N |-> RowText("negative", i)]]
    /\ limit = get_sample_limit(corpus, NoKey).limit
    /\ wordcounts = EmptyCounts
    /\ processed = [l \in Labels |-> NoKey]
    /\ word_scores = NoKey
    /\ best_words = NoKey
    /\ label_fd = NoKey
    /\ classifiers = [n \in ClassifierNames |-> NoKey]
    /\ jobs = <<>>
    /\ tasks = <<>>
    /\ ret = [op |-> "init"]

Next ==
    \/ StoreFeatureCounts
    \/ Dispatch
    \/ Join
    \/ \E t \in 1..Len(tasks) : redis_feature_consumer(t)
    \/ \E t \in 1..Len(tasks) : Fail(t)

Spec == Init /\ [][Next]_vars

\* ------------------------------------------------------------------------
\* Properties of the batch feature counter (checked under Spec)
\* ------------------------------------------------------------------------

\* the samples of a chunk that carry the label and whose tokens include w
SamplesWith(samples, label, w) ==
    Cardinality({i \in 1..Len(samples) :
                    /\ samples[i][2] = label
                    /\ \E k \in 1..Len(sanitize_text(samples[i][1])) :
                          sanitize_text(samples[i][1])[k] = w})

\* ... summed over the chunks of a set of tasks
RECURSIVE Contribution(_, _, _)
Contribution(S, label, w) ==
    IF S = {} THEN 0
    ELSE LET t == CHOOSE x \in S : TRUE
         IN  SamplesWith(tasks[t].chunk, label, w)
                + Contribution(S \ {t}, label, w)

\* the samples with tokens that carry the label, over a set of tasks
RECURSIVE ProcessedBy(_, _)
ProcessedBy(S, label) ==
    IF S = {} THEN 0
    ELSE LET t == CHOOSE x \in S : TRUE
         IN  ProcessedIn(tasks[t].chunk, label) + ProcessedBy(S \ {t}, label)

TasksAt(stage) == {t \in 1..Len(tasks) : tasks[t].stage = stage}

AllWorkersFinished == TasksAt("queued") = {}

\* C1: once all workers have finished, the count of each word in
\* `<label>_wordcounts` is the number of processed samples of that label
\* whose token set contains the word, whatever the interleaving was.
C1_CountsAreExact ==
    AllWorkersFinished =>
        \A label \in Labels, w \in Words :
            wordcounts[label][w] = Contribution(TasksAt("executed"), label, w)

\* C1's case: two workers have finished and both counted the word "a" for
\* the positive label.
C1_Witness ==
    /\ AllWorkersFinished
    /\ Cardinality(TasksAt("executed")) >= 2
    /\ \A t \in TasksAt("executed") :
          SamplesWith(tasks[t].chunk, "positive", "a") = 1
    /\ wordcounts["positive"]["a"] >= 2

\* the integer a counter key holds (0 while the key is absent)
CounterValue(key) == IF key.exists THEN ParseInt(key.val) ELSE 0

\* C2: once the chunks have been consumed, `positive_processed` and
\* `negative_processed` each equal the number of samples of that label
\* processed across all chunks.
C2_ProcessedTotals ==
    AllWorkersFinished =>
        \A label \in Labels :
            CounterValue(processed[label])
                = ProcessedBy(TasksAt("executed"), label)

\* C3: a store_feature_counts call made while `positive_wordcounts` exists
\* writes nothing: every cache key keeps its value, no chunk is produced or
\* consumed for it, and it has returned.
C3_GuardedCallIsNoOp ==
    [][ /\ (Len(jobs') = Len(jobs) + 1
              /\ \E w \in Words : wordcounts["positive"][w] > 0) =>
              /\ UNCHANGED <<limit, wordcounts, processed, word_scores,
                             best_words, tasks>>
              /\ jobs'[Len(jobs')].state = "returned"
        /\ \A j \in 1..Len(jobs) :
              jobs[j].skipped =>
                  /\ jobs'[j] = jobs[j]
                  /\ \A t \in 1..Len(tasks') : tasks'[t].job # j
      ]_vars

\* C3's case: a second call found the counts of a first batch and returned.
C3_Witness ==
    /\ Len(jobs) = 2
    /\ jobs[2].skipped
    /\ jobs[2].samples > 0
    /\ wordcounts["positive"]["a"] > 0

\* C7: consuming a chunk adds to each word's count, for a label, the number
\* of the chunk's samples of that label that contain the word, however often
\* a sample repeats it; so a word that one processed sample of a label
\* contains has count 1 for that label.
C7_DistinctWordsCountOnce ==
    /\ [][ \A t \in 1..Len(tasks) :
              (tasks[t].stage = "queued" /\ tasks'[t].stage = "executed") =>
                  \A label \in Labels, w \in Words :
                      wordcounts'[label][w] = wordcounts[label][w]
                          + SamplesWith(tasks[t].chunk, label, w)
         ]_vars
    /\ [](\A label \in Labels, w \in Words :
              Contribution(TasksAt("executed"), label, w) = 1
                  => wordcounts[label][w] = 1)

\* C7's case: the one processed sample is the text whose tokens repeat "a",
\* and "a" counts 1.
C7_Witness ==
    /\ Cardinality(TasksAt("executed")) = 1
    /\ \E t \in TasksAt("executed") :
          \E i \in 1..Len(tasks[t].chunk) :
              /\ tasks[t].chunk[i] = <<1, "positive">>
              /\ sanitize_text(1) = <<"a", "b", "a">>
    /\ wordcounts["positive"]["a"] = 1

\* C8: in every state of a parallel batch the visible word counts are the
\* combined contribution of whole chunks, none of them the chunk of a
\* worker that failed: a chunk's increments appear together or not at all.
C8_WholeChunksOnly ==
    \E S \in SUBSET (TasksAt("queued") \cup TasksAt("executed")) :
        \A label \in Labels, w \in Words :
            wordcounts[label][w] = Contribution(S, label, w)

\* C8's case: one chunk is committed, one is in flight and one worker has
\* failed with a chunk that had words to count.
C8_Witness ==
    /\ TasksAt("executed") # {}
    /\ TasksAt("queued") # {}
    /\ \E t \in TasksAt("failed") :
          SamplesWith(tasks[t].chunk, "positive", "a") > 0
    /\ wordcounts["positive"]["a"] = 1

\* how often a sample was fetched, over the chunks of a set of tasks
RECURSIVE TimesFetched(_, _)
TimesFetched(S, sample) ==
    IF S = {} THEN 0
    ELSE LET t == CHOOSE x \in S : TRUE
         IN  Cardinality({k \in 1..Len(tasks[t].chunk) :
                             tasks[t].chunk[k] = sample})
                + TimesFetched(S \ {t}, sample)

\* the samples fetched, over the chunks of a set of tasks
RECURSIVE Consumed(_)
Consumed(S) ==
    IF S = {} THEN 0
    ELSE LET t == CHOOSE x \in S : TRUE
         IN  Len(tasks[t].chunk) + Consumed(S \ {t})

\* the chunks of an invocation
TasksOf(j) == {t \in 1..Len(tasks) : tasks[t].job = j}

\* C19: store_feature_counts(samples, chunksize) that found no word counts,
\* with samples at most the sample limit and any chunksize >= 1: once the
\* dispatcher has cut [0, samples) into chunks, the chunks fetched hold,
\* for each label, the rows 0 .. samples/2 - 1 once each and no other row,
\* and no more than `samples` samples in all.
C19_ChunksCoverRowsOnce ==
    \A j \in 1..Len(jobs) :
        (/\ jobs[j].state \in {"joining", "returned"}
         /\ ~jobs[j].skipped
         /\ limit.exists
         /\ jobs[j].samples <= ParseInt(limit.val)) =>
            /\ \A l \in Labels :
                  \A i \in 1..Len(corpus[l]) :
                     TimesFetched(TasksOf(j), <<corpus[l][i], l>>)
                       = IF i <= jobs[j].samples \div 2 THEN 1 ELSE 0
            /\ Consumed(TasksOf(j)) <= jobs[j].samples

\* the rows of the corpus that carry the label and whose tokens include w
CorpusSamplesWith(label, w) ==
    Cardinality({i \in 1..Len(corpus[label]) :
                    \E k \in 1..Len(sanitize_text(corpus[label][i])) :
                        sanitize_text(corpus[label][i])[k] = w})

ScoreWords == {"a", "b", "c"}

\* The dicts word -> score that may be stored as word scores. A score stands
\* for the float chi_sq gives; only the order of scores matters here.
ScoreDicts == UNION {[D -> 0..MaxScore] : D \in SUBSET ScoreWords}

\* The items of a dict, as pickle writes them (the order of the bytes is
\* the dict's iteration order; what is loaded does not depend on it).
RECURSIVE ItemsOf(_)
ItemsOf(d) ==
    IF DOMAIN d = {} THEN <<>>
    ELSE LET k == CHOOSE x \in DOMAIN d : TRUE
         IN  <<<<k, d[k]>>>> \o ItemsOf([x \in DOMAIN d \ {k} |-> d[x]])

\* pickle.dumps of a dict: a type mark, then the items.
DumpsDict(d) == <<"dict">> \o ItemsOf(d)

\* pickle.dumps of a list of (word, score) tuples: a type mark, then the
\* tuples in list order.
DumpsList(l) == <<"list">> \o l

\* pickle.loads of the bytes of a dict
LoadsDict(bytes) ==
    [w \in {bytes[i][1] : i \in 2..Len(bytes)} |->
        bytes[CHOOSE i \in 2..Len(bytes) : bytes[i][1] = w][2]]

\* pickle.loads of the bytes of a list
LoadsList(bytes) == Tail(bytes)

\* a pickled blob under a key
BlobKey(bytes) == [exists |-> TRUE, val |-> bytes]

\* pickle_load(name) of a key: r.get gives None for an absent key, and
\* pickle.loads(None) raises TypeError.
pickle_load_error(key) == IF key.exists THEN "none" ELSE "TypeError"

\* the sequences that hold each element of S once
Orders(S) ==
    {o \in [1..Cardinality(S) -> S] : \A x \in S : \E i \in DOMAIN o : o[i] = x}

\* sorted(...) with the bug of a forgotten reverse=True: ascending.
RECURSIVE SortedByScore_ascending(_)
SortedByScore_ascending(items) ==
    IF Len(items) = 0 THEN <<>>
    ELSE LET done == SortedByScore_ascending(SubSeq(items, 1, Len(items) - 1))
             x    == items[Len(items)]
             k    == Cardinality({i \in 1..Len(done) : done[i][2] <= x[2]})
         IN  SubSeq(done, 1, k) \o <<x>> \o SubSeq(done, k + 1, Len(done))

\* sorted(items, key=lambda (w, s): s, reverse=True): descending by score;
\* the sort is stable, so items of equal score keep their order.
RECURSIVE SortedByScore(_)
SortedByScore(items) ==
    IF Len(items) = 0 THEN <<>>
    ELSE LET done == SortedByScore(SubSeq(items, 1, Len(items) - 1))
             x    == items[Len(items)]
             k    == Cardinality({i \in 1..Len(done) : done[i][2] >= x[2]})
         IN  SubSeq(done, 1, k) \o <<x>> \o SubSeq(done, k + 1, Len(done))

\* l[:n]
SliceTo(l, n) ==
    IF n >= 0 THEN SubSeq(l, 1, Min(n, Len(l)))
    ELSE SubSeq(l, 1, Max(0, Len(l) + n))

\* pickle.load('best_words'): pickle.load takes a file object, and the
\* str it is given has no read and readline: cPickle raises TypeError.
pickle_load_of_str(name) == "TypeError"

featuresIdle ==
    /\ UNCHANGED <<corpus, limit, wordcounts, processed, jobs, tasks>>
    /\ UNCHANGED <<label_fd, classifiers>>

\* pickle_store('word_scores', d): some word scores are stored.
PickleStoreWordScores ==
    \E d \in ScoreDicts :
        /\ word_scores' = BlobKey(DumpsDict(d))
        /\ ret' = [op |-> "pickle_store", name |-> "word_scores"]
        /\ UNCHANGED best_words
        /\ featuresIdle

\* store_best_features(n). iteritems() gives the items of the dict in an
\* order Python does not fix.
store_best_features(n) ==
    IF n = 0
    THEN /\ ret' = [op |-> "store_best_features", n |-> n, error |-> "none"]
         /\ UNCHANGED best_words
    ELSE IF pickle_load_error(word_scores) # "none"
    THEN /\ ret' = [op |-> "store_best_features", n |-> n,
                    error |-> pickle_load_error(word_scores)]
         /\ UNCHANGED best_words
    ELSE LET ws == LoadsDict(word_scores.val)
         IN  IF DOMAIN ws = {}
             THEN /\ ret' = [op |-> "store_best_features", n |-> n,
                             error |-> "AssertionError"]
                  /\ UNCHANGED best_words
             ELSE \E order \in Orders(DOMAIN ws) :
                     LET items == [i \in DOMAIN order |->
                                      <<order[i], ws[order[i]]>>]
                         best  == SliceTo(SortedByScore(items), n)
                     IN  /\ best_words' = BlobKey(DumpsList(best))
                         /\ ret' = [op |-> "store_best_features", n |-> n,
                                    error |-> "none"]

StoreBestFeatures ==
    \E n \in (-1)..MaxN :
        /\ store_best_features(n)
        /\ UNCHANGED word_scores
        /\ featuresIdle

\* get_best_words with the bug of no `'best_words' in self.r.keys()` test:
\* the key is loaded whether it exists or not.
get_best_words_unguarded(scores) ==
    LET err == pickle_load_of_str("best_words")
        bw  == LoadsList(best_words.val)
    IN  IF err # "none"
        THEN [op |-> "get_best_words", scores |-> scores,
              error |-> err, none |-> FALSE, value |-> <<>>]
        ELSE [op |-> "get_best_words", scores |-> scores,
              error |-> "none", none |-> FALSE,
              value |-> IF scores THEN bw
                        ELSE {bw[i][1] : i \in 1..Len(bw)}]

\* get_best_words(scores): nothing is written; what is returned, or the
\* error it ends in.
get_best_words(scores) ==
    IF best_words.exists
    THEN LET err == pickle_load_of_str("best_words")
             bw  == LoadsList(best_words.val)
         IN  IF err # "none"
             THEN [op |-> "get_best_words", scores |-> scores,
                   error |-> err, none |-> FALSE, value |-> <<>>]
             ELSE IF scores
             THEN [op |-> "get_best_words", scores |-> scores,
                   error |-> "none", none |-> FALSE, value |-> bw]
             ELSE [op |-> "get_best_words", scores |-> scores,
                   error |-> "none", none |-> FALSE,
                   value |-> {bw[i][1] : i \in 1..Len(bw)}]
    ELSE [op |-> "get_best_words", scores |-> scores,
          error |-> "none", none |-> TRUE, value |-> <<>>]

GetBestWords ==
    \E scores \in BOOLEAN :
        /\ ret' = get_best_words(scores)
        /\ UNCHANGED <<word_scores, best_words>>
        /\ featuresIdle

NextFeatures ==
    \/ PickleStoreWordScores
    \/ StoreBestFeatures
    \/ GetBestWords
    \/ Purge

SpecFeatures == InitCorpus /\ [][NextFeatures]_vars

\* ------------------------------------------------------------------------
\* Properties of the best features (checked under SpecFeatures)
\* ------------------------------------------------------------------------

\* C9: after store_best_features(n) with n >= 1 on word scores that are not
\* empty, `best_words` holds (word, score) pairs, min(n, number of scored
\* words) of them, in non-increasing order of score, each an entry of the
\* word scores, and no word left out scores more than a word taken.
C9_BestFeaturesSelected ==
    (/\ ret.op = "store_best_features"
     /\ ret.n >= 1
     /\ word_scores.exists
     /\ DOMAIN LoadsDict(word_scores.val) # {}) =>
        /\ ret.error = "none"
        /\ best_words.exists
        /\ LET ws   == LoadsDict(word_scores.val)
               best == LoadsList(best_words.val)
               taken == {best[i][1] : i \in 1..Len(best)}
           IN  /\ Len(best) = Min(ret.n, Cardinality(DOMAIN ws))
               /\ \A i \in 1..(Len(best) - 1) : best[i][2] >= best[i + 1][2]
               /\ \A i \in 1..Len(best) :
                     /\ best[i][1] \in DOMAIN ws
                     /\ ws[best[i][1]] = best[i][2]
               /\ \A w \in DOMAIN ws \ taken :
                     \A i \in 1..Len(best) : ws[w] <= best[i][2]

\* C9's case: two of three scored words are taken, a word of the top score
\* among them and a word of a lower score left out.
C9_Witness ==
    /\ ret.op = "store_best_features"
    /\ ret.n = 2
    /\ ret.error = "none"
    /\ word_scores.exists
    /\ best_words.exists
    /\ LET ws   == LoadsDict(word_scores.val)
           best == LoadsList(best_words.val)
       IN  /\ Cardinality(DOMAIN ws) = 3
           /\ Len(best) = 2
           /\ best[1][2] = 2
           /\ best[2][2] = 1
           /\ \E w \in DOMAIN ws : ws[w] = 0

\* C10: once `best_words` is stored, get_best_words(scores=True) returns
\* the stored sequence of (word, score) pairs, get_best_words(scores=False)
\* returns a mapping whose keys are the words of that sequence, and neither
\* ends in an error.
C10_GetBestWordsReturnsStored ==
    (ret.op = "get_best_words" /\ best_words.exists) =>
        /\ ret.error = "none"
        /\ ~ret.none
        /\ LET best == LoadsList(best_words.val)
           IN  IF ret.scores
               THEN ret.value = best
               ELSE ret.value = {best[i][1] : i \in 1..Len(best)}

\* the cache: every key of it
cache == <<limit, wordcounts, processed, word_scores, best_words, label_fd,
           classifiers>>

\* C11: a get_best_words call made while no `best_words` key exists returns
\* None for either value of the scores flag, ends in no error and leaves
\* every key of the cache as it was.
C11_NoBestWordsGivesNone ==
    [][(ret'.op = "get_best_words" /\ ~best_words.exists) =>
          /\ ret'.none
          /\ ret'.error = "none"
          /\ ret'.scores \in BOOLEAN
          /\ UNCHANGED cache]_vars

\* C11's case: word scores are stored, best words are not, and
\* get_best_words(scores=True) has returned None.
C11_Witness ==
    /\ ret.op = "get_best_words"
    /\ ret.scores
    /\ ret.none
    /\ ~best_words.exists
    /\ word_scores.exists

\* ------------------------------------------------------------------------
\* Blobs by name: pickle_store, pickle_load, store_classifier,
\* load_classifier (RedisManager)
\* ------------------------------------------------------------------------

\* The values stored under a name: a classifier stands as the dict of its
\* feature weights.
Models == UNION {[D -> 0..1] : D \in SUBSET Words}

\* Bytes under a key that pickle did not write (another program's SET, a
\* string cut to nothing): no pickle, and what pickle.loads does with them.
CorruptBytes == {<<>>, <<"garbage">>, <<"reduce">>}

\* pickle.loads(bytes), the error: no bytes at all end in EOFError, an
\* unknown opcode in UnpicklingError, a REDUCE whose callable rejects its
\* arguments in TypeError.
loads_error(bytes) ==
    IF Len(bytes) = 0 THEN "EOFError"
    ELSE IF bytes[1] \in {"dict", "list"} THEN "none"
    ELSE IF bytes[1] = "reduce" THEN "TypeError"
    ELSE "UnpicklingError"

\* pickle_store with the bug of no pickle.dumps: r.set(name, data) stores
\* the value's text.
pickle_store_nodumps(data) == BlobKey(<<"repr">> \o ItemsOf(data))

\* pickle_store(name, data): the key `name` afterwards.
pickle_store(data) == BlobKey(DumpsDict(data))

\* pickle_load(name) of a key: r.get gives None for an absent key and
\* pickle.loads(None) raises TypeError; the bytes of a present key are
\* unpickled.
pickle_load(key) ==
    IF ~key.exists
    THEN [error |-> "TypeError", value |-> <<>>]
    ELSE IF loads_error(key.val) # "none"
    THEN [error |-> loads_error(key.val), value |-> <<>>]
    ELSE [error |-> "none", value |-> LoadsDict(key.val)]

\* load_classifier(name) of a key: a TypeError of pickle_load is caught and
\* None returned; any other error reaches the caller.
load_classifier(key) ==
    LET p == pickle_load(key)
    IN  IF p.error = "TypeError"
        THEN [error |-> "none", none |-> TRUE, value |-> <<>>]
        ELSE [error |-> p.error, none |-> FALSE, value |-> p.value]

blobStoreIdle ==
    /\ UNCHANGED <<corpus, limit, wordcounts, processed, jobs, tasks>>
    /\ UNCHANGED <<word_scores, best_words, label_fd>>

\* A call of pickle_store(name, data).
PickleStore ==
    \E name \in ClassifierNames, data \in Models :
        /\ classifiers' = [classifiers EXCEPT ![name] = pickle_store(data)]
        /\ ret' = [op |-> "pickle_store", name |-> name, data |-> data]
        /\ blobStoreIdle

\* A call of pickle_load(name).
PickleLoad ==
    \E name \in ClassifierNames :
        LET p == pickle_load(classifiers[name])
        IN  /\ ret' = [op |-> "pickle_load", name |-> name,
                       error |-> p.error, value |-> p.value]
            /\ UNCHANGED classifiers
            /\ blobStoreIdle

\* A call of store_classifier(name, classifier).
StoreClassifier ==
    \E name \in ClassifierNames, classifier \in Models :
        /\ classifiers' = [classifiers EXCEPT ![name] = pickle_store(classifier)]
        /\ ret' = [op |-> "store_classifier", name |-> name,
                   data |-> classifier]
        /\ blobStoreIdle

\* A call of load_classifier(name).
LoadClassifier ==
    \E name \in ClassifierNames :
        LET c == load_classifier(classifiers[name])
        IN  /\ ret' = [op |-> "load_classifier", name |-> name,
                       error |-> c.error, none |-> c.none,
                       value |-> c.value]
            /\ UNCHANGED classifiers
            /\ blobStoreIdle

\* Another client of the cache writes bytes of its own under a name.
SetBytes ==
    \E name \in ClassifierNames, bytes \in CorruptBytes :
        /\ classifiers' = [classifiers EXCEPT ![name] = BlobKey(bytes)]
        /\ ret' = [op |-> "set", name |-> name]
        /\ blobStoreIdle

NextBlobs ==
    \/ PickleStore
    \/ PickleLoad
    \/ StoreClassifier
    \/ LoadClassifier
    \/ SetBytes
    \/ Purge

SpecBlobs == InitCorpus /\ [][NextBlobs]_vars

\* ------------------------------------------------------------------------
\* Properties of the blobs (checked under SpecBlobs)
\* ------------------------------------------------------------------------

\* C12: pickle_store(k, v) followed by pickle_load(k) returns a value equal
\* to v: a load that follows the store at once returns the value stored,
\* and so does any load made while the key still holds what the store of v
\* wrote.
C12_PickleRoundTrip ==
    /\ [][(/\ ret.op = "pickle_store"
           /\ ret'.op = "pickle_load"
           /\ ret'.name = ret.name) =>
              /\ ret'.error = "none"
              /\ ret'.value = ret.data]_vars
    /\ [](\A v \in Models :
            (/\ ret.op = "pickle_load"
             /\ classifiers[ret.name] = pickle_store(v)) =>
                /\ ret.error = "none"
                /\ ret.value = v)

\* C12's case: a dict of two words with different values was stored under
\* a name and loaded back, with the other name holding another blob.
C12_Witness ==
    /\ ret.op = "pickle_load"
    /\ ret.error = "none"
    /\ DOMAIN ret.value = Words
    /\ ret.value["a"] # ret.value["b"]
    /\ classifiers[ret.name] = pickle_store(ret.value)
    /\ \E n \in ClassifierNames \ {ret.name} :
          /\ classifiers[n].exists
          /\ classifiers[n] # classifiers[ret.name]

\* C16: load_classifier(name) returns None without an error when no entry
\* exists under the name and when the entry cannot be unpickled, and the
\* model when store_classifier wrote the entry.
C16_LoadClassifierNeverRaises ==
    (ret.op = "load_classifier") =>
        LET key == classifiers[ret.name]
        IN  /\ ret.error = "none"
            /\ (~key.exists \/ key.val \in CorruptBytes) => ret.none
            /\ \A m \in Models :
                  key = pickle_store(m) => (~ret.none /\ ret.value = m)

\* ------------------------------------------------------------------------
\* Frequency distributions and word scores: store_freqdists,
\* store_feature_scores (RedisManager)
\* ------------------------------------------------------------------------

\* zrange(<label>_wordcounts, 0, -1, withscores=True, desc=True): the
\* members of the sorted set with their scores. Only the pairs are used,
\* not their order.
zrange(wc, label) ==
    [w \in {x \in Words : wc[label][x] > 0} |-> wc[label][w]]

\* pickle.dumps of a ConditionalFreqDist: a type mark, then each
\* condition's FreqDist.
DumpsFd(fd) == <<"cfd", DumpsDict(fd.positive), DumpsDict(fd.negative)>>

\* pickle.loads of the bytes of a ConditionalFreqDist
LoadsFd(bytes) ==
    [positive |-> LoadsDict(bytes[2]), negative |-> LoadsDict(bytes[3])]

\* FreqDist.__getitem__: the count of a sample, 0 for one never counted
Count(d, w) == IF w \in DOMAIN d THEN d[w] ELSE 0

\* FreqDist.N(): the sum of the counts
RECURSIVE N(_)
N(d) ==
    IF DOMAIN d = {} THEN 0
    ELSE LET w == CHOOSE x \in DOMAIN d : TRUE
         IN  d[w] + N([x \in DOMAIN d \ {w} |-> d[x]])

RECURSIVE GCD(_, _)
GCD(a, b) == IF b = 0 THEN a ELSE GCD(b, a % b)

\* A score is the quotient num / den in lowest terms (the code computes
\* floats); <<0, 0>> stands for a division by zero.
Frac(num, den) ==
    IF den = 0 THEN <<0, 0>>
    ELSE LET g == GCD(num, den) IN <<num \div g, den \div g>>

AddFrac(x, y) ==
    IF x[2] = 0 \/ y[2] = 0 THEN <<0, 0>>
    ELSE Frac(x[1] * y[2] + y[1] * x[2], x[2] * y[2])

\* BigramAssocMeasures.chi_sq(n_ii, (n_ix, n_xi), n_xx) of nltk:
\* n_xx * phi_sq, phi_sq the squared determinant of the contingency table
\* over the product of its four marginals.
chi_sq(n_ii, n_ix, n_xi, n_xx) ==
    LET n_oi == n_xi - n_ii
        n_io == n_ix - n_ii
        n_oo == n_xx - n_ii - n_oi - n_io
        det  == n_ii * n_oo - n_io * n_oi
    IN  Frac(n_xx * det * det,
             (n_ii + n_io) * (n_ii + n_oi) * (n_io + n_oo) * (n_oi + n_oo))

\* The body of the loops of store_feature_scores for one label and one of
\* its words: freq is the word's count under the label of the outer loop.
ScoreAt(fd, label, word) ==
    LET pos_word_count   == N(fd.positive)
        neg_word_count   == N(fd.negative)
        total_word_count == pos_word_count + neg_word_count
        freq             == fd[label][word]
        pos_score == chi_sq(Count(fd.positive, word), freq, pos_word_count,
                            total_word_count)
        neg_score == chi_sq(Count(fd.negative, word), freq, neg_word_count,
                            total_word_count)
    IN  AddFrac(pos_score, neg_score)

\* The loops with the bug of scoring the words of the first condition only.
feature_scores_first_label(fd, order) ==
    [w \in DOMAIN fd[order[1]] |-> ScoreAt(fd, order[1], w)]

\* The dict word_scores after the loops over the conditions in the given
\* order and over each condition's words: an assignment of a later label
\* overwrites that of an earlier one, so a word keeps the score computed
\* under the last label that has it.
feature_scores(fd, order) ==
    [w \in UNION {DOMAIN fd[l] : l \in Labels} |->
        LET last == CHOOSE i \in DOMAIN order :
                        /\ w \in DOMAIN fd[order[i]]
                        /\ \A j \in DOMAIN order :
                              (j > i) => (w \notin DOMAIN fd[order[j]])
        IN  ScoreAt(fd, order[last], w)]

\* the text store_feature_scores prints when `label_fd` cannot be loaded
RequiresFreqdists == "Requires frequency distributions to be built."

scoresIdle ==
    /\ UNCHANGED <<corpus, limit, processed, jobs, tasks>>
    /\ UNCHANGED <<best_words, classifiers>>

\* A consumer's ZINCRBY <label>_wordcounts 1 word reaches the cache.
CountWord ==
    \E label \in Labels, word \in Words :
        /\ wordcounts[label][word] < MaxCount
        /\ wordcounts' = ZincrbyOnCache(wordcounts, Zincrby(label, word))
        /\ ret' = [op |-> "zincrby"]
        /\ UNCHANGED <<label_fd, word_scores>>
        /\ scoresIdle

\* Another client deletes a <label>_wordcounts key (the only way but a
\* purge to make store_feature_counts count again).
DeleteWordcounts ==
    \E label \in Labels :
        /\ wordcounts' = [wordcounts EXCEPT ![label] = [w \in Words |-> 0]]
        /\ ret' = [op |-> "del"]
        /\ UNCHANGED <<label_fd, word_scores>>
        /\ scoresIdle

\* store_freqdists with the bug of an assertion that asks for one of the
\* two sorted sets only (`assert pos_words or neg_words`).
StoreFreqdists_either ==
    LET pos_words == zrange(wordcounts, "positive")
        neg_words == zrange(wordcounts, "negative")
    IN  /\ IF DOMAIN pos_words = {} /\ DOMAIN neg_words = {}
           THEN /\ ret' = [op |-> "store_freqdists",
                           error |-> "AssertionError",
                           message |->
                               "Requires wordcounts to be stored in redis.",
                           printed |-> ""]
                /\ UNCHANGED label_fd
           ELSE /\ label_fd' = BlobKey(DumpsFd([positive |-> pos_words,
                                                negative |-> neg_words]))
                /\ ret' = [op |-> "store_freqdists", error |-> "none",
                           message |-> "", printed |-> ""]
        /\ UNCHANGED <<wordcounts, word_scores>>
        /\ scoresIdle

\* A call of store_freqdists().
StoreFreqdists ==
    LET pos_words == zrange(wordcounts, "positive")
        neg_words == zrange(wordcounts, "negative")
    IN  /\ IF DOMAIN pos_words = {} \/ DOMAIN neg_words = {}
           THEN /\ ret' = [op |-> "store_freqdists",
                           error |-> "AssertionError",
                           message |->
                               "Requires wordcounts to be stored in redis.",
                           printed |-> ""]
                /\ UNCHANGED label_fd
           ELSE /\ label_fd' = BlobKey(DumpsFd([positive |-> pos_words,
                                                negative |-> neg_words]))
                /\ ret' = [op |-> "store_freqdists", error |-> "none",
                           message |-> "", printed |-> ""]
        /\ UNCHANGED <<wordcounts, word_scores>>
        /\ scoresIdle

\* A call of store_feature_scores(). With no `label_fd` key the TypeError
\* of pickle_load is caught and the text printed, and the method goes on:
\* its next statement reads label_word_freqdist, which was never bound.
\* conditions() gives the labels in an order Python does not fix.
StoreFeatureScores ==
    /\ IF pickle_load_error(label_fd) # "none"
       THEN /\ ret' = [op |-> "store_feature_scores",
                       error |-> "UnboundLocalError",
                       message |-> "local variable 'label_word_freqdist' referenced before assignment",
                       printed |-> RequiresFreqdists]
            /\ UNCHANGED word_scores
       ELSE \E order \in Orders(Labels) :
               LET ws == feature_scores(LoadsFd(label_fd.val), order)
               IN  IF \E w \in DOMAIN ws : ws[w][2] = 0
                   THEN /\ ret' = [op |-> "store_feature_scores",
                                   error |-> "ZeroDivisionError",
                                   message |-> "float division by zero",
                                   printed |-> ""]
                        /\ UNCHANGED word_scores
                   ELSE /\ word_scores' = BlobKey(DumpsDict(ws))
                        /\ ret' = [op |-> "store_feature_scores",
                                   error |-> "none", message |-> "",
                                   printed |-> ""]
    /\ UNCHANGED <<wordcounts, label_fd>>
    /\ scoresIdle

NextFreqdists ==
    \/ CountWord
    \/ DeleteWordcounts
    \/ StoreFreqdists
    \/ Purge

SpecFreqdists == InitCorpus /\ [][NextFreqdists]_vars

\* The batch counter has run: the sorted sets hold any counts up to
\* MaxCount, and nothing was built from them yet.
InitScores ==
    /\ corpus = [positive |-> <<>>, negative |-> <<>>]
    /\ limit = NoKey
    /\ wordcounts \in [Labels -> [Words -> 0..MaxCount]]
    /\ processed = [l \in Labels |-> NoKey]
    /\ word_scores = NoKey
    /\ best_words = NoKey
    /\ label_fd = NoKey
    /\ classifiers = [n \in ClassifierNames |-> NoKey]
    /\ jobs = <<>>
    /\ tasks = <<>>
    /\ ret = [op |-> "init"]

NextScores ==
    \/ StoreFreqdists
    \/ StoreFeatureScores
    \/ Purge

SpecScores == InitScores /\ [][NextScores]_vars

\* ------------------------------------------------------------------------
\* Properties of the frequency distributions (checked under SpecFreqdists)
\* and of the word scores (checked under SpecScores)
\* ------------------------------------------------------------------------

\* the words counted under a label
Counted(label) == {w \in Words : wordcounts[label][w] > 0}

\* C14: store_freqdists fails with an error and leaves `label_fd` as it was
\* (absent, or an older distribution) when the positive or the negative
\* word counts are absent or empty; when both have members, the stored
\* distribution maps, for each label, exactly that label's counted words to
\* their counts.
C14_FreqdistsFromWordcounts ==
    [][(ret'.op = "store_freqdists") =>
          IF Counted("positive") = {} \/ Counted("negative") = {}
          THEN /\ ret'.error # "none"
               /\ label_fd' = label_fd
          ELSE /\ ret'.error = "none"
               /\ label_fd'.exists
               /\ \A l \in Labels :
                     LET d == LoadsFd(label_fd'.val)[l]
                     IN  /\ DOMAIN d = Counted(l)
                         /\ \A w \in DOMAIN d : d[w] = wordcounts[l][w]
      ]_vars

\* C14's case: store_freqdists has failed on word counts with positive
\* members and no negative one, and the older distribution, which has
\* negative words, is still stored.
C14_Witness ==
    /\ ret.op = "store_freqdists"
    /\ ret.error = "AssertionError"
    /\ Counted("positive") # {}
    /\ Counted("negative") = {}
    /\ label_fd.exists
    /\ DOMAIN LoadsFd(label_fd.val).negative # {}

\* C15: with no `label_fd` key, store_feature_scores fails with an error
\* that reaches the caller and names the missing step (the frequency
\* distributions are to be built first), and neither creates nor changes
\* `word_scores`.
C15_MissingFreqdistsIsNamed ==
    [][(ret'.op = "store_feature_scores" /\ ~label_fd.exists) =>
          /\ ret'.error # "none"
          /\ ret'.message = RequiresFreqdists
          /\ word_scores' = word_scores
      ]_vars

\* C17: after a store_feature_scores that ended in no error, the keys of
\* the stored word scores are exactly the words of the positive and of the
\* negative frequency distribution.
C17_ScoredWordsAreTheUnion ==
    (ret.op = "store_feature_scores" /\ ret.error = "none") =>
        /\ word_scores.exists
        /\ label_fd.exists
        /\ LET fd == LoadsFd(label_fd.val)
           IN  DOMAIN LoadsDict(word_scores.val)
                 = DOMAIN fd.positive \cup DOMAIN fd.negative

\* C17's case: scores stored for a distribution with a word that only the
\* positive label has and a word that only the negative label has.
C17_Witness ==
    /\ ret.op = "store_feature_scores"
    /\ ret.error = "none"
    /\ word_scores.exists
    /\ label_fd.exists
    /\ LET fd == LoadsFd(label_fd.val)
       IN  /\ DOMAIN fd.positive = {"a"}
           /\ DOMAIN fd.negative = {"b"}
           /\ DOMAIN LoadsDict(word_scores.val) = {"a", "b"}

\* the score C18 states for a word: each label's term with the word's
\* frequency under that same label
StatedScore(fd, w) ==
    LET pos_word_count == N(fd.positive)
        neg_word_count == N(fd.negative)
        total          == pos_word_count + neg_word_count
    IN  AddFrac(chi_sq(Count(fd.positive, w), Count(fd.positive, w),
                       pos_word_count, total),
                chi_sq(Count(fd.negative, w), Count(fd.negative, w),
                       neg_word_count, total))

\* C18: the score store_feature_scores stores for a word is the chi_sq of
\* its positive count with its positive frequency plus the chi_sq of its
\* negative count with its negative frequency, whatever the order of the
\* labels. Stated for the words both labels have: for a word of one label
\* the other label's term has a zero marginal and is no number.
C18_ScoreUsesEachLabelsFrequency ==
    (ret.op = "store_feature_scores" /\ ret.error = "none") =>
        LET fd == LoadsFd(label_fd.val)
            ws == LoadsDict(word_scores.val)
        IN  \A w \in DOMAIN fd.positive \cap DOMAIN fd.negative :
               ws[w] = StatedScore(fd, w)

=============================================================================
